---- MODULE Spec2Model ----
(***************************************************************************)
(* Model of TSMT$GeomUtils.closestPoints (src/src/GeomUtils.ts), the       *)
(* divide-and-conquer closest pair of points of a planar point cloud.      *)
(*                                                                         *)
(* Conventions of the model                                                *)
(*  - A JavaScript array is the record [elems |-> <<...>>]; the absent     *)
(*    array (null / undefined) is the record null.  Sequences are 1-based, *)
(*    the source's 0-based index i is element i+1 (operator At).           *)
(*  - A point object {x, y} is the record [ref, x, y]; ref stands for the  *)
(*    object's identity (the index i of the p.push that allocated it), so  *)
(*    that two coordinate-identical points remain two objects.             *)
(*  - Coordinates are integers.  Every distance the code computes is       *)
(*    Math.sqrt(dx*dx + dy*dy) of integers and is only ever compared with  *)
(*    "<" against another such root, against |dx| or against a             *)
(*    non-negative dy; the square root is strictly monotone on these       *)
(*    values, so the model keeps the SQUARED distance and compares         *)
(*    squares.  MAX_VALUE stands for the sentinel Number.MAX_VALUE in the  *)
(*    same (squared) unit; it exceeds every squared distance of the model. *)
(*  - Array.prototype.sort is the stable sort of ECMAScript 2019.          *)
(***************************************************************************)
EXTENDS Integers, Sequences, FiniteSets, TLC

VARIABLES
  _best1,     \* instance field _best1    (GeomUtils.ts:67)
  _best2,     \* instance field _best2    (GeomUtils.ts:68)
  _bestDist,  \* instance field _bestDist (GeomUtils.ts:69), squared
  _xcoord,    \* argument of the current / last closestPoints call
  _ycoord,    \* argument of the current / last closestPoints call
  result,     \* array returned by the last closestPoints call
  pc,         \* "ready": call not yet made, "returned": call has returned
  calls,      \* number of closestPoints calls made on this instance
  inv,        \* the closestPoints invocations in progress on the instance
              \* when their steps interleave (SpecConc), else null
  fn,         \* name of the geometric predicate called (SpecGeom), else null
  args,       \* its arguments
  out,        \* the value it returned, null before it returns
  __t,        \* instance field __t (GeomUtils.ts:71), a fraction [n, d]
  __u         \* instance field __u (GeomUtils.ts:72), a fraction [n, d]

vars == <<_best1, _best2, _bestDist, _xcoord, _ycoord, result, pc, calls,
          inv, fn, args, out, __t, __u>>

----------------------------------------------------------------------------
(* Bounds of the model *)

\* largest coordinate of the point clouds drawn from the grid (0..MaxCoord)^2
MaxCoord == 2
\* largest number of points of the point clouds drawn from the grid
MaxN == 3
\* largest number of points of a slice of the unit test's point cloud
MaxSliceLen == 4
\* largest index of the unit test's point cloud at which a slice starts
MaxSliceStart == 5
\* number of closestPoints calls made on one instance in SpecSeq
MaxCalls == 2

----------------------------------------------------------------------------
(* Values *)

\* Number.MAX_VALUE, in squared-distance units
MAX_VALUE == 1000000

\* JavaScript null (also stands for an absent argument)
null == [null |-> TRUE]

\* the empty object literal {} of the constructor
EmptyObject == [empty |-> TRUE]

Array(s) == [elems |-> s]

\* a.length
Length(a) == Len(a.elems)

\* a[i], i the 0-based index of the source
At(s, i) == s[i + 1]

\* the object literal {x: _xcoord[i], y: _ycoord[i]} allocated for index i
Point(i, xs, ys) == [ref |-> i, x |-> At(xs.elems, i), y |-> At(ys.elems, i)]

\* Dist2 with dx taken from the y-coordinates as well
Dist2_CopiedDy(a, b) == (b.y - a.y) * (b.y - a.y) + (b.y - a.y) * (b.y - a.y)

\* dx*dx + dy*dy, the square of Math.sqrt(dx*dx + dy*dy)
Dist2(a, b) == (b.x - a.x) * (b.x - a.x) + (b.y - a.y) * (b.y - a.y)

Min(a, b) == IF a < b THEN a ELSE b

----------------------------------------------------------------------------
(* Array.prototype.sort with the in-lined 'sort-on' comparator *)

\* the comparator with the two results -1 and 1 exchanged
Comparator_Descending(a, b, sortProps) ==
  LET prop == Head(sortProps)
  IN  IF a[prop] = b[prop] THEN 0 ELSE IF a[prop] > b[prop] THEN -1 ELSE 1

\* the comparator function of p.sort / pointsByY.sort: -1, 0 or 1
RECURSIVE Comparator(_, _, _)
Comparator(a, b, sortProps) ==
  LET prop  == Head(sortProps)
      props == Tail(sortProps)
  IN  IF a[prop] = b[prop] /\ Len(props) > 0
        THEN Comparator(a, b, props)
        ELSE IF a[prop] = b[prop] THEN 0
             ELSE IF a[prop] > b[prop] THEN 1 ELSE -1

\* s.sort(comparator): the elements of s in ascending order of the
\* comparator, elements that compare equal in the order they have in s
Sort(s, sortProps) ==
  LET n == Len(s)
      \* s[j] comes before s[i] in the sorted array
      Before(j, i) == \/ Comparator(s[j], s[i], sortProps) < 0
                      \/ Comparator(s[j], s[i], sortProps) = 0 /\ j < i
      Rank(i) == Cardinality({j \in 1..n : Before(j, i)}) + 1
  IN  SubSeq([k \in 1..n |-> s[CHOOSE i \in 1..n : Rank(i) = k]], 1, n)

----------------------------------------------------------------------------
(* __closestPoint *)

\* v < Math.sqrt(D) for an integer v and a squared distance D
LessThanRoot(v, D) == v < 0 \/ v * v < D

\* Math.abs(v) < Math.sqrt(D)
AbsLessThanRoot(v, D) == v * v < D

\* the median index rounded up instead of down
Mid_RoundedUp(from, to) == from + ((to - from + 1) \div 2)

\* Math.floor(from + (to - from)/2)
Mid(from, to) == from + ((to - from) \div 2)

\* StripRange with the loop bound written i < to
StripRange_Exclusive(from, to) == [lo |-> from, hi |-> to - 1]

\* the index range of the strip loop: for (i = from; i <= to; ++i)
StripRange(from, to) == [lo |-> from, hi |-> to]

\* for (i = from; i <= to; ++i) if (|pointsByY[i].x - median.x| < d) tmp[m++] = pointsByY[i]
Strip(pointsByY, median, d, from, to) ==
  LET InBand(q) == AbsLessThanRoot(q.x - median.x, d)
  IN  SelectSeq(SubSeq(pointsByY, from + 1, to + 1), InBand)

\* both tests made with <= instead of <: a pair that ties with the running
\* best replaces it
Candidate_NonStrict(s, a, b) ==
  LET distance == Dist2(a, b)
  IN  IF distance <= s.d
        THEN IF distance <= s._bestDist
               THEN [s EXCEPT !.d = distance, !._best1 = a, !._best2 = b,
                              !._bestDist = distance]
               ELSE [s EXCEPT !.d = distance]
        ELSE s

\* the running best written whenever the pair is closer than the local d,
\* without the test d < _bestDist
Candidate_Unguarded(s, a, b) ==
  LET distance == Dist2(a, b)
  IN  IF distance < s.d
        THEN [s EXCEPT !.d = distance, !._best1 = a, !._best2 = b,
                       !._bestDist = distance]
        ELSE s

\* if (distance < d) { d = distance; if (d < _bestDist) { _bestDist = d; _best1 = tmp[i]; _best2 = tmp[j] } }
\* s = [d, _best1, _best2, _bestDist]
Candidate(s, a, b) ==
  LET distance == Dist2(a, b)
  IN  IF distance < s.d
        THEN IF distance < s._bestDist
               THEN [s EXCEPT !.d = distance, !._best1 = a, !._best2 = b,
                              !._bestDist = distance]
               ELSE [s EXCEPT !.d = distance]
        ELSE s

\* the three fields of the running best in the state s
Best(s) == [_best1 |-> s._best1, _best2 |-> s._best2, _bestDist |-> s._bestDist]

\* one pass through the body of the while loop for the pair (a, b); seen and
\* best are history fields: the pairs examined so far in the order of the
\* scan, and the running best each of them has left behind
Examine(s, a, b) ==
  LET c == Candidate(s, a, b)
  IN  [c EXCEPT !.seen = Append(s.seen, <<a, b>>), !.best = Append(s.best, Best(c))]

\* The loop  for (k = lo; k <= hi && While(k, s); ++k) s = Body(k, s)  run
\* from r = [exited |-> FALSE, s |-> the state at entry]: the iterations are
\* made in ascending order and the loop is left for good at the first k whose
\* condition fails.  (The range is split in halves only to keep the
\* evaluation shallow.)
RECURSIVE Iterate(_, _, _, _, _)
Iterate(While(_, _), Body(_, _), lo, hi, r) ==
  IF lo > hi \/ r.exited THEN r
  ELSE IF lo = hi
    THEN IF While(lo, r.s) THEN [exited |-> FALSE, s |-> Body(lo, r.s)]
                           ELSE [exited |-> TRUE, s |-> r.s]
    ELSE LET half == lo + ((hi - lo) \div 2)
         IN  Iterate(While, Body, half + 1, hi, Iterate(While, Body, lo, half, r))

\* the while loop started at j = i instead of j = i+1: every point of the
\* strip is also paired with itself
InnerLoop_FromI(tmp, i, s) ==
  LET While(j, w) == LessThanRoot(At(tmp, j).y - At(tmp, i).y, w.d)
      Body(j, w)  == Examine(w, At(tmp, i), At(tmp, j))
  IN  Iterate(While, Body, i, Len(tmp) - 1, [exited |-> FALSE, s |-> s]).s

\* j = i+1; while ((j < m) && (tmp[j].y - tmp[i].y < d)) { ...; j++ }
InnerLoop(tmp, i, s) ==
  LET While(j, w) == LessThanRoot(At(tmp, j).y - At(tmp, i).y, w.d)
      Body(j, w)  == Examine(w, At(tmp, i), At(tmp, j))
  IN  Iterate(While, Body, i + 1, Len(tmp) - 1, [exited |-> FALSE, s |-> s]).s

\* for (i = 0; i < m; ++i) { j = i+1; while ... }
OuterLoop(tmp, s) ==
  LET While(i, w) == TRUE
      Body(i, w)  == InnerLoop(tmp, i, w)
  IN  Iterate(While, Body, 0, Len(tmp) - 1, [exited |-> FALSE, s |-> s]).s

\* Statement sequencing: v is computed first and F is then applied to it, as a
\* statement of the source completes before the next one starts.  (A LET
\* would postpone v until it is first needed, nesting the evaluation of the
\* earlier statements inside the later ones.)
Then(v, F(_)) == IF v = v THEN F(v) ELSE F(v)

\* what a call can change: the array pointsByY and the running best
View(s) == [pointsByY |-> s.pointsByY, best |-> Best(s)]

\* __closestPoint(pointsByX, pointsByY, from, to) run on the state
\* st = [d, pointsByY, _best1, _best2, _bestDist, seen, best, frames] (d is
\* not read); the value is the state the call leaves behind, d the number it
\* returns.  frames is a history field: one record for every call that has
\* returned, in the order of the returns, with the arguments of the call, the
\* number returned, the view at entry and at exit, and for a call that got
\* past the outlier test its median, the d it built its strip with, the
\* re-sorted array and the strip.
RECURSIVE __closestPoint(_, _, _, _)
__closestPoint(pointsByX, st, from, to) ==
  IF to <= from
    THEN [st EXCEPT !.d = MAX_VALUE,
                    !.frames = Append(st.frames,
                      [outlier |-> TRUE, pointsByX |-> pointsByX, from |-> from, to |-> to,
                       d |-> MAX_VALUE, entry |-> View(st), exit |-> View(st)])]
    ELSE
      LET mid    == Mid(from, to)
          median == At(pointsByX, mid)
          range  == StripRange(from, to)
      IN  Then(__closestPoint(pointsByX, st, from, mid), LAMBDA left :
          Then(__closestPoint(pointsByX, left, mid + 1, to), LAMBDA right :
          Then(Min(left.d, right.d), LAMBDA d :
          Then(Sort(right.pointsByY, <<"y">>), LAMBDA sorted :
          Then(Strip(sorted, median, d, range.lo, range.hi), LAMBDA tmp :
          Then(OuterLoop(tmp, [right EXCEPT !.d = d, !.pointsByY = sorted]), LAMBDA s :
            [s EXCEPT !.frames = Append(s.frames,
               [outlier |-> FALSE, pointsByX |-> pointsByX, from |-> from, to |-> to,
                d |-> s.d, entry |-> View(st), exit |-> View(s),
                median |-> median, dStrip |-> d, sorted |-> sorted, tmp |-> tmp])]
          ))))))

\* the state at entry of the root call __closestPoint(p, pY, 0, n-1) made on
\* an instance with fields self
Root(p, self) ==
  [d |-> MAX_VALUE, pointsByY |-> p, _best1 |-> self._best1,
   _best2 |-> self._best2, _bestDist |-> self._bestDist, seen |-> <<>>,
   best |-> <<>>, frames |-> <<>>]

\* number of nested __closestPoint activations of the call on [from, to]:
\* the call itself, plus the deeper of its two recursive calls
RECURSIVE RecursionDepth(_, _)
RecursionDepth(from, to) ==
  IF to <= from THEN 1
  ELSE LET mid   == Mid(from, to)
           left  == RecursionDepth(from, mid)
           right == RecursionDepth(mid + 1, to)
       IN  1 + (IF left > right THEN left ELSE right)

----------------------------------------------------------------------------
(* closestPoints *)

\* !_xcoord || !_ycoord || !_xcoord.length || !_ycoord.length
MissingInput(xs, ys) ==
  xs = null \/ ys = null \/ Length(xs) = 0 \/ Length(ys) = 0

\* LengthMismatch that only rejects a y-array that is too short
LengthMismatch_TooShortOnly(xs, ys) == Length(xs) > Length(ys)

\* _xcoord.length != _ycoord.length
LengthMismatch(xs, ys) == Length(xs) # Length(ys)

\* Singleton with the two coordinates taken from the wrong arrays
Singleton_Swapped(xs, ys) ==
  Array(<<[ref |-> 0, x |-> At(ys.elems, 0), y |-> At(xs.elems, 0)],
          [ref |-> 1, x |-> At(ys.elems, 0), y |-> At(xs.elems, 0)]>>)

\* Singleton as the doc comment has it: no pair for fewer than two points
Singleton_Empty(xs, ys) == Array(<<>>)

\* n == 1: [{x: _xcoord[0], y: _ycoord[0]}, {x: _xcoord[0], y: _ycoord[0]}],
\* two separately allocated objects
Singleton(xs, ys) ==
  Array(<<[ref |-> 0, x |-> At(xs.elems, 0), y |-> At(ys.elems, 0)],
          [ref |-> 1, x |-> At(xs.elems, 0), y |-> At(ys.elems, 0)]>>)

\* for (i = 0; i < n; ++i) p.push({x: _xcoord[i], y: _ycoord[i]})
Points(xs, ys) == [k \in 1..Length(xs) |-> Point(k - 1, xs, ys)]

\* the reset that clears the two points but keeps the distance of the
\* previous run
Reset_PointsOnly(self) == [_best1 |-> null, _best2 |-> null, _bestDist |-> self._bestDist]

\* Reset that leaves the running best of the previous call in place
Reset_Keep(self) == self

\* the state written at the start of the search:
\* _best1 = null; _best2 = null; _bestDist = Number.MAX_VALUE
Reset(self) == [_best1 |-> null, _best2 |-> null, _bestDist |-> MAX_VALUE]

\* ThreePoints with the test written d <= _bestDist
ThreePoints_NonStrict(p, self) ==
  LET d01 == Dist2(At(p, 0), At(p, 1))
      d12 == Dist2(At(p, 1), At(p, 2))
  IN  [result    |-> IF d12 <= d01 THEN Array(<<At(p, 1), At(p, 2)>>)
                                  ELSE Array(<<At(p, 0), At(p, 1)>>),
       _best1    |-> self._best1,
       _best2    |-> self._best2,
       _bestDist |-> d01]

\* ThreePoints that also compares the pair (p0, p2)
ThreePoints_AllPairs(p, self) ==
  LET d01 == Dist2(At(p, 0), At(p, 1))
      d12 == Dist2(At(p, 1), At(p, 2))
      d02 == Dist2(At(p, 0), At(p, 2))
  IN  [result    |-> IF d02 < d01 /\ d02 < d12 THEN Array(<<At(p, 0), At(p, 2)>>)
                     ELSE IF d12 < d01 THEN Array(<<At(p, 1), At(p, 2)>>)
                                       ELSE Array(<<At(p, 0), At(p, 1)>>),
       _best1    |-> self._best1,
       _best2    |-> self._best2,
       _bestDist |-> d01]

\* the n == 3 branch; p is sorted on x, self the instance state after the reset
ThreePoints(p, self) ==
  LET d01 == Dist2(At(p, 0), At(p, 1))
      d12 == Dist2(At(p, 1), At(p, 2))
  IN  [result    |-> IF d12 < d01 THEN Array(<<At(p, 1), At(p, 2)>>)
                                 ELSE Array(<<At(p, 0), At(p, 1)>>),
       _best1    |-> self._best1,
       _best2    |-> self._best2,
       _bestDist |-> d01]

\* the general path: pY = p.slice(); __closestPoint(p, pY, 0, n-1);
\* return [_best1, _best2]
General(p, self) ==
  LET r == __closestPoint(p, Root(p, self), 0, Len(p) - 1)
  IN  [result    |-> Array(<<r._best1, r._best2>>),
       _best1    |-> r._best1,
       _best2    |-> r._best2,
       _bestDist |-> r._bestDist]

\* closestPoints(_xcoord, _ycoord) called on an instance whose fields are
\* self = [_best1, _best2, _bestDist]: the returned array and the fields the
\* call leaves behind.  (The array 'points' filled for n == 2 is never read.)
closestPoints(self, xs, ys) ==
  LET unchanged(res) == [result |-> res, _best1 |-> self._best1,
                         _best2 |-> self._best2, _bestDist |-> self._bestDist]
  IN  IF MissingInput(xs, ys) THEN unchanged(Array(<<>>))
      ELSE IF LengthMismatch(xs, ys) THEN unchanged(Array(<<>>))
      ELSE IF Length(xs) = 0 THEN unchanged(Array(<<>>))
      ELSE IF Length(xs) = 1 THEN unchanged(Singleton(xs, ys))
      ELSE LET p  == Sort(Points(xs, ys), <<"x">>)
               s0 == Reset(self)
           IN  IF Length(xs) = 3 THEN ThreePoints(p, s0) ELSE General(p, s0)

----------------------------------------------------------------------------
(* The instance and its callers *)

\* the fields after the constructor
Constructed ==
  [_best1 |-> EmptyObject, _best2 |-> EmptyObject, _bestDist |-> MAX_VALUE,
   __t |-> [n |-> 0, d |-> 1], __u |-> [n |-> 0, d |-> 1]]

\* all sequences over S of length 0..n
RECURSIVE SeqsUpTo(_, _)
SeqsUpTo(S, n) ==
  IF n = 0 THEN {<<>>}
  ELSE LET shorter == SeqsUpTo(S, n - 1)
       IN  shorter \cup {Append(s, e) : s \in {t \in shorter : Len(t) = n - 1}, e \in S}

\* the coordinate arrays a caller may pass: absent, or any array of at most
\* n coordinates in 0..c.  Arrays are taken up to translation (the smallest
\* coordinate of a non-empty array is 0): the code reads coordinates only
\* through differences and comparisons.
Arrays(c, n) ==
  {null} \cup {Array(s) : s \in {t \in SeqsUpTo(0..c, n) :
                                  Len(t) = 0 \/ \E i \in 1..Len(t) : t[i] = 0}}

\* the x-arrays among them that list their coordinates in ascending order.
\* closestPoints reads the input only to build p and sorts p on x with a
\* stable sort, so every cloud has the same array p, up to the numbering of
\* the slots, as the cloud that lists the same points in the order of p.
\* (Clouds that are not listed in x order are those cut from the unit test's
\* cloud.)
AscendingArrays(c, n) ==
  {a \in Arrays(c, n) :
     a = null \/ \A i \in 1..Length(a) : \A j \in 1..Length(a) :
                   i < j => a.elems[i] <= a.elems[j]}

\* the point cloud of the unit test 'closest distance returns correct output
\* for arbitrary point cloud'
FixtureX == Array(<<-2, 1, 2, 0, -8, -7, -8, 5, 1, 1, -2, 5, 4, 3, -5, 8, 4, 2, 1, 0>>)

FixtureY == Array(<<0, 3, 4, -2, -3, 4, 2, 0, 1, 2, -2, -1, 4, 0, 2, -2, 3, -3, -2, 1>>)

\* n coordinates of the unit test's array a, from index start on
Slice(a, start, n) == Array(SubSeq(a.elems, start + 1, start + n))

\* argument lists cut out of the unit test's point cloud: the x- and the
\* y-coordinates of at most MaxSliceLen consecutive points (of unequal length
\* or empty as well), or an absent array
FixtureSlices ==
  {<<Slice(FixtureX, c[1], c[2]), Slice(FixtureY, c[1], c[3])>> :
      c \in (0..MaxSliceStart) \X (0..MaxSliceLen) \X (0..MaxSliceLen)}
  \cup {<<null, Slice(FixtureY, 0, 1)>>, <<Slice(FixtureX, 0, 1), null>>}

\* a new instance and the arguments of the call about to be made on it
Init ==
  /\ _best1 = Constructed._best1
  /\ _best2 = Constructed._best2
  /\ _bestDist = Constructed._bestDist
  /\ \/ /\ _xcoord \in AscendingArrays(MaxCoord, MaxN)
        /\ _ycoord \in Arrays(MaxCoord, MaxN)
     \/ /\ _xcoord = FixtureX
        /\ _ycoord = FixtureY
     \/ \E a \in FixtureSlices : _xcoord = a[1] /\ _ycoord = a[2]
  /\ result = null
  /\ pc = "ready"
  /\ calls = 0
  /\ inv = null
  /\ fn = null /\ args = null /\ out = null
  /\ __t = Constructed.__t /\ __u = Constructed.__u

\* the call closestPoints(_xcoord, _ycoord), from entry to return
Call ==
  /\ pc = "ready"
  /\ LET r == closestPoints([_best1 |-> _best1, _best2 |-> _best2,
                             _bestDist |-> _bestDist], _xcoord, _ycoord)
     IN  /\ result' = r.result
         /\ _best1' = r._best1
         /\ _best2' = r._best2
         /\ _bestDist' = r._bestDist
  /\ pc' = "returned"
  /\ calls' = calls + 1
  /\ UNCHANGED <<_xcoord, _ycoord, inv, fn, args, out, __t, __u>>

Next == Call

\* one closestPoints call on a new instance
Spec == Init /\ [][Next]_vars

InitSeq ==
  /\ _best1 = Constructed._best1
  /\ _best2 = Constructed._best2
  /\ _bestDist = Constructed._bestDist
  /\ \E a \in FixtureSlices : _xcoord = a[1] /\ _ycoord = a[2]
  /\ result = null
  /\ pc = "ready"
  /\ calls = 0
  /\ inv = null
  /\ fn = null /\ args = null /\ out = null
  /\ __t = Constructed.__t /\ __u = Constructed.__u

\* the caller prepares the next call on the same instance
NextArguments ==
  /\ pc = "returned"
  /\ calls < MaxCalls
  /\ \E a \in FixtureSlices : _xcoord' = a[1] /\ _ycoord' = a[2]
  /\ pc' = "ready"
  /\ UNCHANGED <<_best1, _best2, _bestDist, result, calls, inv, fn, args, out, __t, __u>>

NextSeq == Call \/ NextArguments

\* a sequence of closestPoints calls on one instance
SpecSeq == InitSeq /\ [][NextSeq]_vars

----------------------------------------------------------------------------
(* Vocabulary of the properties *)

\* the call has returned
Returned == pc = "returned"

\* both arrays present and of the same length
SameLength == _xcoord # null /\ _ycoord # null /\ Length(_xcoord) = Length(_ycoord)

\* the call was made on a cloud of exactly k points
Cloud(k) == Returned /\ SameLength /\ Length(_xcoord) = k

\* the call was made on a cloud of at least k points
CloudAtLeast(k) == Returned /\ SameLength /\ Length(_xcoord) >= k

\* the square of the Euclidean distance between the points a and b
SquaredDistance(a, b) == (a.x - b.x) * (a.x - b.x) + (a.y - b.y) * (a.y - b.y)

\* the returned array holds two point objects
ResultIsPair ==
  /\ result # null
  /\ Length(result) = 2
  /\ result.elems[1] \notin {null, EmptyObject}
  /\ result.elems[2] \notin {null, EmptyObject}

\* squared distance between the two returned points
ResultDist2 == SquaredDistance(result.elems[1], result.elems[2])

\* brute force: the smallest squared distance over all C(n,2) pairs of points
MinPairSquaredDistance(xs, ys) ==
  LET n  == Length(xs)
      DP == {SquaredDistance(Point(c[1], xs, ys), Point(c[2], xs, ys)) :
               c \in {b \in (0..(n - 1)) \X (0..(n - 1)) : b[1] < b[2]}}
  IN  CHOOSE m \in DP : \A e \in DP : m <= e

\* the point cloud of the call, sorted on x as closestPoints sorts it
SortedOnX == Sort(Points(_xcoord, _ycoord), <<"x">>)

\* the returned array holds the objects a and b, in either order
ReturnsPair(a, b) ==
  /\ ResultIsPair
  /\ \/ result.elems = <<a, b>>
     \/ result.elems = <<b, a>>

----------------------------------------------------------------------------
(* C1 *)

\* C1: for every cloud of n >= 2 points the distance between the two points
\* closestPoints returns equals the brute-force minimum over all pairs.
C1_DistanceIsBruteForceMinimum ==
  CloudAtLeast(2) =>
    ResultIsPair /\ ResultDist2 = MinPairSquaredDistance(_xcoord, _ycoord)

----------------------------------------------------------------------------
(* C2 *)

\* C2: for n >= 4, when the root call of __closestPoint has returned,
\* _bestDist is the true minimum pairwise distance and (_best1, _best2) is a
\* pair of input points at exactly that distance.
C2_RootCallLeavesGlobalMinimum ==
  CloudAtLeast(4) =>
    /\ _bestDist = MinPairSquaredDistance(_xcoord, _ycoord)
    /\ _best1 \in {Point(i, _xcoord, _ycoord) : i \in 0..(Length(_xcoord) - 1)}
    /\ _best2 \in {Point(i, _xcoord, _ycoord) : i \in 0..(Length(_xcoord) - 1)}
    /\ SquaredDistance(_best1, _best2) = _bestDist

----------------------------------------------------------------------------
(* C3 *)

\* the argument list is malformed: an array absent or empty, or two lengths
MalformedArguments ==
  \/ _xcoord = null
  \/ _ycoord = null
  \/ Length(_xcoord) = 0
  \/ Length(_ycoord) = 0
  \/ Length(_xcoord) # Length(_ycoord)

\* C3: whenever a coordinate array is absent or empty, or the two arrays
\* differ in length, the call returns normally with an array of length 0,
\* whatever the arrays hold.
C3_MalformedArgumentsGiveEmptyResult ==
  (Returned /\ MalformedArguments) => (result # null /\ Length(result) = 0)

\* a call with two non-empty arrays of different lengths has returned []
C3_Witness ==
  /\ Returned
  /\ _xcoord # null /\ _ycoord # null
  /\ Length(_xcoord) > 0 /\ Length(_ycoord) > 0
  /\ Length(_xcoord) # Length(_ycoord)
  /\ Length(result) = 0

----------------------------------------------------------------------------
(* C4 *)

----------------------------------------------------------------------------
(* C5 *)

----------------------------------------------------------------------------
(* C6 *)

\* C6: for n = 2 the result has exactly two elements, the two input points:
\* one with the coordinates (xs[0], ys[0]) and one with (xs[1], ys[1]),
\* also when the two points have the same coordinates.
C6_TwoPointsAreReturned ==
  Cloud(2) => ReturnsPair(Point(0, _xcoord, _ycoord), Point(1, _xcoord, _ycoord))

\* a call on two coordinate-identical points has returned
C6_Witness ==
  /\ Cloud(2)
  /\ At(_xcoord.elems, 0) = At(_xcoord.elems, 1)
  /\ At(_ycoord.elems, 0) = At(_ycoord.elems, 1)
  /\ Length(result) = 2

----------------------------------------------------------------------------
(* C7 *)

\* C7: for n = 3 and the points sorted on x as p0, p1, p2 the result is
\* (p1, p2) when dist(p1, p2) is strictly smaller than dist(p0, p1) and
\* (p0, p1) otherwise; the pair (p0, p2) is never returned.
C7_ThreePointsAdjacentPairsOnly ==
  Cloud(3) =>
    LET p0 == At(SortedOnX, 0)
        p1 == At(SortedOnX, 1)
        p2 == At(SortedOnX, 2)
    IN  /\ SquaredDistance(p1, p2) < SquaredDistance(p0, p1)  => result.elems = <<p1, p2>>
        /\ SquaredDistance(p1, p2) >= SquaredDistance(p0, p1) => result.elems = <<p0, p1>>
        /\ ~ ReturnsPair(p0, p2)

\* a call on three points whose two adjacent pairs are at the same distance
\* and whose extreme pair is closer has returned
C7_Witness ==
  /\ Cloud(3)
  /\ SquaredDistance(At(SortedOnX, 1), At(SortedOnX, 2)) = SquaredDistance(At(SortedOnX, 0), At(SortedOnX, 1))
  /\ SquaredDistance(At(SortedOnX, 0), At(SortedOnX, 2)) < SquaredDistance(At(SortedOnX, 0), At(SortedOnX, 1))
  /\ Length(result) = 2

----------------------------------------------------------------------------
(* C8 *)

\* the x-extreme pair (p0, p2) is strictly closer than both adjacent pairs
ExtremePairStrictlyClosest ==
  /\ SquaredDistance(At(SortedOnX, 0), At(SortedOnX, 2)) < SquaredDistance(At(SortedOnX, 0), At(SortedOnX, 1))
  /\ SquaredDistance(At(SortedOnX, 0), At(SortedOnX, 2)) < SquaredDistance(At(SortedOnX, 1), At(SortedOnX, 2))

\* C8: for every cloud of three points whose strictly closest pair is the
\* x-extreme pair (p0, p2), the returned pair is strictly farther apart than
\* the true minimum over the three pairs.
C8_ExtremePairIsMissed ==
  (Cloud(3) /\ ExtremePairStrictlyClosest) =>
    ResultIsPair /\ ResultDist2 > MinPairSquaredDistance(_xcoord, _ycoord)

\* such a cloud exists, with three different x-coordinates, and the call on
\* it has returned
C8_Witness ==
  /\ Cloud(3)
  /\ ExtremePairStrictlyClosest
  /\ At(SortedOnX, 0).x < At(SortedOnX, 1).x
  /\ At(SortedOnX, 1).x < At(SortedOnX, 2).x
  /\ Length(result) = 2

----------------------------------------------------------------------------
(* C9 *)

\* the call was made on the unit test's point cloud
FixtureCall == Returned /\ _xcoord = FixtureX /\ _ycoord = FixtureY

\* C9: on the 20 points of the unit test the two returned points are at
\* distance 1 (squared distance 1), the true minimum of that cloud.
C9_FixtureDistanceIsOne ==
  FixtureCall =>
    /\ ResultIsPair
    /\ ResultDist2 = 1
    /\ MinPairSquaredDistance(FixtureX, FixtureY) = 1

\* the call on the unit test's point cloud has returned a pair
C9_Witness == FixtureCall /\ Length(result) = 2

----------------------------------------------------------------------------
(* C10 *)

\* C10: whatever calls were made on the instance before, a call returns
\* exactly the array a newly constructed instance returns for the same
\* arguments.
C10_ResultIndependentOfEarlierCalls ==
  Returned => result = closestPoints(Constructed, _xcoord, _ycoord).result

\* a second call on the same instance, on at least four points, has returned
C10_Witness ==
  /\ CloudAtLeast(4)
  /\ calls = 2
  /\ Length(result) = 2

----------------------------------------------------------------------------
(* Two closestPoints invocations on one instance, their steps interleaved *)

\* the two invocations
Invocations == {"A", "B"}

\* the point clouds the invocations are called on: slices of the unit
\* test's point cloud
ConcClouds ==
  {<<Slice(FixtureX, c[1], c[2]), Slice(FixtureY, c[1], c[2])>> :
     c \in (0..MaxSliceStart) \X (0..MaxSliceLen)}

\* the instance fields as a record
Fields == [_best1 |-> _best1, _best2 |-> _best2, _bestDist |-> _bestDist]

\* the local array p of invocation t: its points sorted on x
LocalP(t) == Sort(Points(inv[t].xs, inv[t].ys), <<"x">>)

\* a step of invocation t that writes the instance fields: every other
\* invocation that has reset them and not yet returned is no longer alone
\* (alone is a history field, not a field of the program)
Step(t, next) ==
  [u \in Invocations |->
     IF u = t THEN next
     ELSE IF inv[u].pc \in {"three", "scan", "read"}
            THEN [inv[u] EXCEPT !.alone = FALSE]
            ELSE inv[u]]

InitConc ==
  /\ _best1 = Constructed._best1
  /\ _best2 = Constructed._best2
  /\ _bestDist = Constructed._bestDist
  /\ inv \in [Invocations -> {[pc |-> "ready", xs |-> c[1], ys |-> c[2],
                               result |-> null, alone |-> TRUE] : c \in ConcClouds}]
  /\ _xcoord = null /\ _ycoord = null /\ result = null
  /\ pc = "interleaved" /\ calls = 0
  /\ fn = null /\ args = null /\ out = null
  /\ __t = Constructed.__t /\ __u = Constructed.__u

\* the guards and early returns of closestPoints, and the construction of
\* the local array p (no instance field is read or written)
Enter(t) ==
  /\ inv[t].pc = "ready"
  /\ LET xs == inv[t].xs
         ys == inv[t].ys
     IN  inv' = [inv EXCEPT ![t] =
           IF MissingInput(xs, ys) \/ LengthMismatch(xs, ys) \/ Length(xs) = 0
             THEN [@ EXCEPT !.pc = "returned", !.result = Array(<<>>)]
           ELSE IF Length(xs) = 1
             THEN [@ EXCEPT !.pc = "returned", !.result = Singleton(xs, ys)]
             ELSE [@ EXCEPT !.pc = "reset"]]
  /\ UNCHANGED <<_best1, _best2, _bestDist, _xcoord, _ycoord, result, pc, calls,
                 fn, args, out, __t, __u>>

\* this._best1 = null; this._best2 = null; this._bestDist = Number.MAX_VALUE
ResetStep(t) ==
  /\ inv[t].pc = "reset"
  /\ LET s0 == Reset(Fields)
     IN  /\ _best1' = s0._best1
         /\ _best2' = s0._best2
         /\ _bestDist' = s0._bestDist
  /\ inv' = Step(t, [inv[t] EXCEPT !.pc = IF Length(inv[t].xs) = 3 THEN "three"
                                                                  ELSE "scan"])
  /\ UNCHANGED <<_xcoord, _ycoord, result, pc, calls, fn, args, out, __t, __u>>

\* the n == 3 branch up to its return
ThreeStep(t) ==
  /\ inv[t].pc = "three"
  /\ LET r == ThreePoints(LocalP(t), Fields)
     IN  /\ _best1' = r._best1
         /\ _best2' = r._best2
         /\ _bestDist' = r._bestDist
         /\ inv' = Step(t, [inv[t] EXCEPT !.pc = "returned", !.result = r.result])
  /\ UNCHANGED <<_xcoord, _ycoord, result, pc, calls, fn, args, out, __t, __u>>

\* pY = p.slice(); this.__closestPoint(p, pY, 0, n-1): the root call with all
\* its strip scans, taken as one step (finer steps only add interleavings)
ScanStep(t) ==
  /\ inv[t].pc = "scan"
  /\ LET p == LocalP(t)
         r == __closestPoint(p, Root(p, Fields), 0, Len(p) - 1)
     IN  /\ _best1' = r._best1
         /\ _best2' = r._best2
         /\ _bestDist' = r._bestDist
  /\ inv' = Step(t, [inv[t] EXCEPT !.pc = "read"])
  /\ UNCHANGED <<_xcoord, _ycoord, result, pc, calls, fn, args, out, __t, __u>>

\* return [this._best1, this._best2]
ReadStep(t) ==
  /\ inv[t].pc = "read"
  /\ inv' = [inv EXCEPT ![t] = [@ EXCEPT !.pc = "returned",
                                         !.result = Array(<<_best1, _best2>>)]]
  /\ UNCHANGED <<_best1, _best2, _bestDist, _xcoord, _ycoord, result, pc, calls,
                 fn, args, out, __t, __u>>

NextConc ==
  \E t \in Invocations :
    Enter(t) \/ ResetStep(t) \/ ThreeStep(t) \/ ScanStep(t) \/ ReadStep(t)

\* two invocations on one instance, in any interleaving of their steps
SpecConc == InitConc /\ [][NextConc]_vars

----------------------------------------------------------------------------
(* The planar predicates.  Arguments are integers: every product and       *)
(* difference the code forms is then an integer, and a quotient is kept as *)
(* the fraction [n, d] of its integer operands.                            *)

\* largest coordinate of the arguments of the planar predicates (0..MaxArg)
MaxArg == 2
MaxCloud == 2

Abs(v) == IF v < 0 THEN -v ELSE v

\* the fraction n/d, d # 0
Frac(n, d) == [n |-> n, d |-> d]

\* f >= 0 and f <= 1 for a fraction f
GeqZero(f) == f.n * f.d >= 0
LeqOne(f) == (f.n - f.d) * f.d <= 0

\* compare(a, b, 0.001) for integers a and b
compare(a, b) ==
  IF a = b THEN TRUE
  ELSE LET ma == Abs(a)
           mb == Abs(b)
       IN  IF mb > ma THEN 1000 * Abs(a - b) <= mb
                      ELSE 1000 * Abs(a - b) <= ma

pointsEqual(x1, y1, x2, y2) == compare(x1, x2) /\ compare(y1, y2)

__cross(p1x, p1y, p2x, p2y) == p1x * p2y - p1y * p2x

\* the overlap test of two collinear segments: is q between p and p2
Overlap(px, py, p2x, p2y, qx, qy, q2x, q2y) ==
  ((qx - px < 0) # (qx - p2x < 0)) \/ ((qy - py < 0) # (qy - p2y < 0))

\* segmentsIntersect called on an instance with fields self = [__t, __u]:
\* the returned boolean and the fields the call leaves behind
segmentsIntersect(self, px, py, p2x, p2y, qx, qy, q2x, q2y) ==
  LET rx  == p2x - px
      ry  == p2y - py
      sx  == q2x - qx
      sy  == q2y - qy
      tx  == qx - px
      ty  == qy - py
      num == __cross(tx, ty, rx, ry)
      den == __cross(rx, ry, sx, sy)
      t   == Frac(__cross(tx, ty, sx, sy), den)
      u   == Frac(num, den)
  IN  IF num = 0 /\ den = 0
        THEN [value |-> \/ pointsEqual(px, py, qx, qy)
                        \/ pointsEqual(px, py, q2x, q2y)
                        \/ pointsEqual(p2x, p2y, qx, qy)
                        \/ pointsEqual(p2x, p2y, q2x, q2y)
                        \/ Overlap(px, py, p2x, p2y, qx, qy, q2x, q2y),
              __t |-> self.__t, __u |-> self.__u]
      ELSE IF den = 0
        THEN [value |-> FALSE, __t |-> self.__t, __u |-> self.__u]
        ELSE [value |-> GeqZero(t) /\ LeqOne(t) /\ GeqZero(u) /\ LeqOne(u),
              __t |-> t, __u |-> u]

\* the segments intersectBox tests one after the other: the four edges of
\* the rectangle (left, top)-(right, bottom)
Edges(left, top, right, bottom) ==
  <<<<left, top, right, top>>, <<right, top, right, bottom>>,
    <<right, bottom, left, bottom>>, <<left, bottom, left, top>>>>

\* the tests of intersectBox against the edges k, k+1, ..., 4: true at the
\* first edge the segment intersects
RECURSIVE EdgeTests(_, _, _, _, _, _, _)
EdgeTests(self, x1, y1, x2, y2, edges, k) ==
  IF k > Len(edges) THEN [value |-> FALSE, __t |-> self.__t, __u |-> self.__u]
  ELSE LET e == edges[k]
           r == segmentsIntersect(self, x1, y1, x2, y2, e[1], e[2], e[3], e[4])
       IN  IF r.value THEN r
           ELSE EdgeTests([__t |-> r.__t, __u |-> r.__u], x1, y1, x2, y2, edges, k + 1)

\* both end points above, or both below, the box (y-down or y-up)
OutsideY(y1, y2, top, bottom) ==
  IF bottom > top
    THEN (y1 < top /\ y2 < top) \/ (y1 > bottom /\ y2 > bottom)
    ELSE (y1 < bottom /\ y2 < bottom) \/ (y1 > top /\ y2 > top)

intersectBox(self, x1, y1, x2, y2, left, top, right, bottom) ==
  IF (x1 < left /\ x2 < left) \/ (x1 > right /\ x2 > right)
    THEN [value |-> FALSE, __t |-> self.__t, __u |-> self.__u]
  ELSE IF OutsideY(y1, y2, top, bottom)
    THEN [value |-> FALSE, __t |-> self.__t, __u |-> self.__u]
    ELSE EdgeTests(self, x1, y1, x2, y2, Edges(left, top, right, bottom), 1)

\* a local variable that has not been assigned; Number.NaN
undefined == [undefined |-> TRUE]
NaN == [nan |-> TRUE]

RECURSIVE GCD(_, _)
GCD(a, b) == IF b = 0 THEN a ELSE GCD(b, a % b)

\* the number n/d (d # 0) in lowest terms, its denominator positive
Number(n, d) ==
  LET g == GCD(Abs(n), Abs(d))
  IN  Frac((IF n * d < 0 THEN -1 ELSE 1) * (Abs(n) \div g), Abs(d) \div g)

\* (1 - t)*a + t*b for the fraction t and the integers a and b
Lerp(t, a, b) == Number((t.d - t.n) * a + t.n * b, t.d)

\* a > b for two numbers
Greater(a, b) == a.n * b.d > b.n * a.d

\* one edge test of lineRectIntersection on the locals and fields
\* w = [x1, y1, x2, y2, count, __t, __u]; counts: the test ends with count++.
\* The call of segmentsIntersect is evaluated once, as the one element r of
\* a set.
EdgeStep(w, X1, Y1, X2, Y2, e, counts) ==
  LET Assign(r) ==
        LET x == Lerp(r.__t, X1, X2)
            y == Lerp(r.__t, Y1, Y2)
        IN  IF ~r.value THEN [w EXCEPT !.__t = r.__t, !.__u = r.__u]
            ELSE IF w.count = 0
              THEN [w EXCEPT !.x1 = x, !.y1 = y,
                             !.count = IF counts THEN w.count + 1 ELSE w.count,
                             !.__t = r.__t, !.__u = r.__u]
              ELSE [w EXCEPT !.x2 = x, !.y2 = y,
                             !.count = IF counts THEN w.count + 1 ELSE w.count,
                             !.__t = r.__t, !.__u = r.__u]
  IN  CHOOSE v \in {Assign(r) : r \in {segmentsIntersect([__t |-> w.__t, __u |-> w.__u],
                                                         X1, Y1, X2, Y2,
                                                         e[1], e[2], e[3], e[4])}} : TRUE

\* lineRectIntersection called on an instance with fields self: the
\* returned object and the fields the call leaves behind. The four edge
\* tests run in sequence, each on the one state its predecessor left.
lineRectIntersection(self, X1, Y1, X2, Y2, left, top, right, bottom) ==
  LET e  == Edges(left, top, right, bottom)
      w0 == [x1 |-> undefined, y1 |-> undefined, x2 |-> undefined, y2 |-> undefined,
             count |-> 0, __t |-> self.__t, __u |-> self.__u]
      s1 == {EdgeStep(w0, X1, Y1, X2, Y2, e[1], TRUE)}
      s2 == {EdgeStep(w1, X1, Y1, X2, Y2, e[2], TRUE) : w1 \in s1}
      s3 == {IF w2.count < 2 THEN EdgeStep(w2, X1, Y1, X2, Y2, e[3], TRUE) ELSE w2 : w2 \in s2}
      s4 == {IF w3.count < 3 THEN EdgeStep(w3, X1, Y1, X2, Y2, e[4], FALSE) ELSE w3 : w3 \in s3}
  IN  CHOOSE v \in
        {[value |-> IF w4.x1 = undefined \/ w4.x2 = undefined
                      THEN [x1 |-> NaN, y1 |-> NaN, x2 |-> NaN, y2 |-> NaN]
                    ELSE IF Greater(w4.x1, w4.x2)
                      THEN [x1 |-> w4.x2, y1 |-> w4.y2, x2 |-> w4.x1, y2 |-> w4.y1]
                      ELSE [x1 |-> w4.x1, y1 |-> w4.y1, x2 |-> w4.x2, y2 |-> w4.y2],
          __t |-> w4.__t, __u |-> w4.__u] : w4 \in s4} : TRUE

\* insideBox with the box taken as closed on its left side
insideBox_ClosedLeft(x1, y1, left, top, right, bottom) ==
  IF bottom > top
    THEN x1 >= left /\ x1 < right /\ y1 > top /\ y1 < bottom
    ELSE x1 >= left /\ x1 < right /\ y1 < top /\ y1 > bottom

insideBox(x1, y1, left, top, right, bottom) ==
  IF bottom > top
    THEN x1 > left /\ x1 < right /\ y1 > top /\ y1 < bottom
    ELSE x1 > left /\ x1 < right /\ y1 < top /\ y1 > bottom

\* parseFloat of a property that holds an integer number: that number
parseFloat(v) == v

\* the upper side of a bound taken from its top, whatever the orientation
Upper_TopAsGiven(boundTop, boundBottom) == boundTop

\* t1 / t2: the upper side of a bound in y-up coordinates
Upper(boundTop, boundBottom) == IF boundTop > boundBottom THEN boundTop ELSE boundBottom

\* b1 / b2: the lower side of a bound in y-up coordinates
Lower(boundTop, boundBottom) == IF boundTop > boundBottom THEN boundBottom ELSE boundTop

\* boxesIntersect(bound1, bound2): [boolean |-> the returned boolean], or
\* undefined when the function ends without a return statement
boxesIntersect(bound1, bound2) ==
  LET l1 == parseFloat(bound1.left)
      r1 == parseFloat(bound1.right)
      t1 == Upper(parseFloat(bound1.top), parseFloat(bound1.bottom))
      b1 == Lower(parseFloat(bound1.top), parseFloat(bound1.bottom))
      l2 == parseFloat(bound2.left)
      r2 == parseFloat(bound2.right)
      t2 == Upper(parseFloat(bound2.top), parseFloat(bound2.bottom))
      b2 == Lower(parseFloat(bound2.top), parseFloat(bound2.bottom))
  IN  IF l2 > r1 THEN [boolean |-> FALSE]
      ELSE IF r2 < l1 THEN [boolean |-> FALSE]
      ELSE IF t2 < b1 THEN [boolean |-> FALSE]
      ELSE IF t1 < b2 THEN [boolean |-> FALSE]
      ELSE IF r2 >= l1 /\ l2 <= r1 THEN [boolean |-> t2 >= b1 /\ b2 <= t1]
      ELSE undefined

\* enum DirEnum { LEFT, RIGHT, ON }
DirEnum == [LEFT |-> 0, RIGHT |-> 1, ON |-> 2]

\* pointOrientation with the two sides exchanged
pointOrientation_Exchanged(x1, y1, x2, y2, x, y) ==
  LET test == (x2 - x1) * (y - y1) - (x - x1) * (y2 - y1)
  IN  IF test = 0 THEN DirEnum.ON
      ELSE IF test > 0 THEN DirEnum.RIGHT ELSE DirEnum.LEFT

\* pointOrientation; test is an integer, so Math.abs(test) < 0.0001 is test = 0
pointOrientation(x1, y1, x2, y2, x, y) ==
  LET test == (x2 - x1) * (y - y1) - (x - x1) * (y2 - y1)
  IN  IF test = 0 THEN DirEnum.ON
      ELSE IF test > 0 THEN DirEnum.LEFT ELSE DirEnum.RIGHT

\* isClockwise without the negation
isClockwise_Unnegated(_x0, _y0, _x1, _y1, _x2, _y2) ==
  (_y2 - _y0) * (_x1 - _x0) > (_y1 - _y0) * (_x2 - _x0)

\* return !( (_y2-_y0)*(_x1-_x0) > (_y1-_y0)*(_x2-_x0) )
isClockwise(_x0, _y0, _x1, _y1, _x2, _y2) ==
  ~((_y2 - _y0) * (_x1 - _x0) > (_y1 - _y0) * (_x2 - _x0))

\* f*k, f + g and f - g for the numbers f and g and the integer k
Times(f, k) == Number(f.n * k, f.d)
Plus(f, g) == Number(f.n * g.d + g.n * f.d, f.d * g.d)
Minus(f, g) == Number(f.n * g.d - g.n * f.d, f.d * g.d)

\* the reflected point with p1y computed as b*dx + a*dy + y0
Reflected_PlusA(p, a, b, x0, y0) ==
  LET dx == p.x - x0
      dy == p.y - y0
  IN  [x |-> Plus(Plus(Times(a, dx), Times(b, dy)), Number(x0, 1)),
       y |-> Plus(Plus(Times(b, dx), Times(a, dy)), Number(y0, 1))]

\* the body of the loop of reflect: dx = p.x - x0; dy = p.y - y0;
\* {x: a*dx + b*dy + x0, y: b*dx - a*dy + y0}, in exact arithmetic
Reflected(p, a, b, x0, y0) ==
  LET dx == p.x - x0
      dy == p.y - y0
  IN  [x |-> Plus(Plus(Times(a, dx), Times(b, dy)), Number(x0, 1)),
       y |-> Plus(Minus(Times(b, dx), Times(a, dy)), Number(y0, 1))]

\* reflect(points, x0, y0, x1, y1); an array is [id, elems], id telling the
\* caller's array from the array allocated by the call.  d is an integer, so
\* Math.abs(d) < ZERO_TOL is d = 0.
reflect(points, x0, y0, x1, y1) ==
  LET dx  == x1 - x0
      dy  == y1 - y0
      d   == dx * dx + dy * dy
      len == Len(points.elems)
  IN  IF d = 0 THEN points
      ELSE IF len = 0 THEN points
      ELSE LET a == Number(dx * dx - dy * dy, d)
               b == Number(2 * dx * dy, d)
           IN  [id    |-> "reflect",
                elems |-> [i \in 1..len |-> Reflected(points.elems[i], a, b, x0, y0)]]

\* the coordinates a caller passes
Coord == 0..MaxArg

\* the argument lists of a predicate of k numbers
Arguments(k) == [1..k -> Coord]

\* the bounding-box object made of the numbers a[k], ..., a[k+3]
Bound(a, k) == [left |-> a[k], top |-> a[k + 1], right |-> a[k + 2], bottom |-> a[k + 3]]

\* the point cloud of the unit test 'reflection about line y = x'
FixtureCloud ==
  <<[x |-> 2, y |-> 1], [x |-> 1, y |-> -1], [x |-> -1, y |-> 0],
    [x |-> 4, y |-> 7], [x |-> 6, y |-> -4], [x |-> 7, y |-> 2]>>

\* the arrays of points a caller passes to reflect: the empty array, every
\* array of one point, and every run of at most MaxCloud consecutive points
\* of the unit test's cloud
Clouds ==
  {[id |-> "points", elems |-> e] :
     e \in {<<>>}
         \cup {<<[x |-> c[1], y |-> c[2]]>> : c \in Coord \X Coord}
         \cup {SubSeq(FixtureCloud, k[1], k[1] + k[2] - 1) :
                 k \in {h \in (1..Len(FixtureCloud)) \X (1..MaxCloud) :
                          h[1] + h[2] - 1 <= Len(FixtureCloud)}}}

InitGeom ==
  /\ _best1 = Constructed._best1
  /\ _best2 = Constructed._best2
  /\ _bestDist = Constructed._bestDist
  /\ __t = Constructed.__t /\ __u = Constructed.__u
  /\ \/ fn = "segmentsIntersect" /\ args \in Arguments(8)
     \/ fn = "intersectBox" /\ args \in Arguments(8)
     \/ fn = "lineRectIntersection" /\ args \in Arguments(8)
     \/ fn = "boxesIntersect" /\ args \in Arguments(8)
     \/ fn = "insideBox" /\ args \in Arguments(6)
     \/ fn = "pointOrientation" /\ args \in Arguments(6)
     \/ fn = "isClockwise" /\ args \in Arguments(6)
     \/ fn = "reflect" /\ args \in [points : Clouds, line : Arguments(4)]
  /\ out = null
  /\ _xcoord = null /\ _ycoord = null /\ result = null
  /\ pc = "predicate" /\ calls = 0 /\ inv = null

CallSegmentsIntersect ==
  /\ fn = "segmentsIntersect" /\ out = null
  /\ LET r == segmentsIntersect([__t |-> __t, __u |-> __u], args[1], args[2],
                                args[3], args[4], args[5], args[6], args[7], args[8])
     IN  /\ out' = [value |-> r.value]
         /\ __t' = r.__t
         /\ __u' = r.__u
  /\ UNCHANGED <<_best1, _best2, _bestDist, _xcoord, _ycoord, result, pc, calls,
                 inv, fn, args>>

CallIntersectBox ==
  /\ fn = "intersectBox" /\ out = null
  /\ LET r == intersectBox([__t |-> __t, __u |-> __u], args[1], args[2],
                           args[3], args[4], args[5], args[6], args[7], args[8])
     IN  /\ out' = [value |-> r.value]
         /\ __t' = r.__t
         /\ __u' = r.__u
  /\ UNCHANGED <<_best1, _best2, _bestDist, _xcoord, _ycoord, result, pc, calls,
                 inv, fn, args>>

CallLineRectIntersection ==
  /\ fn = "lineRectIntersection" /\ out = null
  /\ LET r == lineRectIntersection([__t |-> __t, __u |-> __u], args[1], args[2],
                                   args[3], args[4], args[5], args[6], args[7], args[8])
     IN  /\ out' = [value |-> r.value]
         /\ __t' = r.__t
         /\ __u' = r.__u
  /\ UNCHANGED <<_best1, _best2, _bestDist, _xcoord, _ycoord, result, pc, calls,
                 inv, fn, args>>

\* the three predicates that read and write no field of the instance
CallBoxesIntersect ==
  /\ fn = "boxesIntersect" /\ out = null
  /\ out' = [value |-> boxesIntersect(Bound(args, 1), Bound(args, 5))]
  /\ UNCHANGED <<_best1, _best2, _bestDist, _xcoord, _ycoord, result, pc, calls,
                 inv, fn, args, __t, __u>>

CallInsideBox ==
  /\ fn = "insideBox" /\ out = null
  /\ out' = [value |-> insideBox(args[1], args[2], args[3], args[4], args[5], args[6])]
  /\ UNCHANGED <<_best1, _best2, _bestDist, _xcoord, _ycoord, result, pc, calls,
                 inv, fn, args, __t, __u>>

CallPointOrientation ==
  /\ fn = "pointOrientation" /\ out = null
  /\ out' = [value |-> pointOrientation(args[1], args[2], args[3], args[4],
                                        args[5], args[6])]
  /\ UNCHANGED <<_best1, _best2, _bestDist, _xcoord, _ycoord, result, pc, calls,
                 inv, fn, args, __t, __u>>

CallIsClockwise ==
  /\ fn = "isClockwise" /\ out = null
  /\ out' = [value |-> isClockwise(args[1], args[2], args[3], args[4], args[5], args[6])]
  /\ UNCHANGED <<_best1, _best2, _bestDist, _xcoord, _ycoord, result, pc, calls,
                 inv, fn, args, __t, __u>>

CallReflect ==
  /\ fn = "reflect" /\ out = null
  /\ out' = [value |-> reflect(args.points, args.line[1], args.line[2],
                               args.line[3], args.line[4])]
  /\ UNCHANGED <<_best1, _best2, _bestDist, _xcoord, _ycoord, result, pc, calls,
                 inv, fn, args, __t, __u>>

NextGeom ==
  \/ CallSegmentsIntersect
  \/ CallIntersectBox
  \/ CallLineRectIntersection
  \/ CallBoxesIntersect
  \/ CallInsideBox
  \/ CallPointOrientation
  \/ CallIsClockwise
  \/ CallReflect

\* one call of a planar predicate on a new instance
SpecGeom == InitGeom /\ [][NextGeom]_vars

----------------------------------------------------------------------------
(* C11 *)

\* the object o is the point made from slot ref of the input arrays
IsInputSlot(o) ==
  /\ o \notin {null, EmptyObject}
  /\ o.ref \in 0..(Length(_xcoord) - 1)
  /\ o = Point(o.ref, _xcoord, _ycoord)

\* C11: every call returns either an empty array or two point objects; for
\* n >= 2 the two objects are two different slots of the input (also when
\* points coincide or are collinear); for n >= 4 the running best has been
\* updated, so that [_best1, _best2] holds no null.
C11_EmptyOrTwoDistinctSlots ==
  Returned =>
    /\ result # null
    /\ Length(result) = 0 \/ ResultIsPair
    /\ CloudAtLeast(2) =>
         /\ ResultIsPair
         /\ IsInputSlot(result.elems[1])
         /\ IsInputSlot(result.elems[2])
         /\ result.elems[1].ref # result.elems[2].ref
    /\ CloudAtLeast(4) =>
         /\ _bestDist < MAX_VALUE
         /\ _best1 \notin {null, EmptyObject}
         /\ _best2 \notin {null, EmptyObject}
         /\ result.elems = <<_best1, _best2>>

\* a call on four or more points has returned the running best, two
\* different slots of its input
C11_Witness ==
  /\ CloudAtLeast(4)
  /\ ResultIsPair
  /\ result.elems = <<_best1, _best2>>
  /\ _best1.ref # _best2.ref

----------------------------------------------------------------------------
(* C12 *)

\* ceil(log2 n) for n >= 1
CeilLog2(n) == CHOOSE k \in 0..n : 2^k >= n /\ (k = 0 \/ 2^(k - 1) < n)

\* C12: for every range [from, to] with to > from of a cloud of n points the
\* median index satisfies from <= mid < to, so that [from, mid] and
\* [mid+1, to] are non-empty, disjoint, cover [from, to] and are strictly
\* smaller; the recursion on [0, n-1] therefore ends, at depth at most
\* ceil(log2 n) + 1.
C12_RecursionRunsToCompletion ==
  (SameLength /\ Length(_xcoord) >= 1) =>
    LET n == Length(_xcoord)
    IN  /\ \A from \in 0..(n - 1) : \A to \in 0..(n - 1) :
             to > from =>
               LET mid       == Mid(from, to)
                   leftSize  == mid - from + 1
                   rightSize == to - (mid + 1) + 1
                   size      == to - from + 1
               IN  /\ from <= mid /\ mid < to
                   /\ leftSize >= 1 /\ rightSize >= 1
                   /\ leftSize + rightSize = size
                   /\ leftSize < size /\ rightSize < size
        /\ RecursionDepth(0, n - 1) <= CeilLog2(n) + 1

\* a call on four or more points has returned, its recursion as deep as the
\* bound allows
C12_Witness ==
  /\ CloudAtLeast(4)
  /\ ResultIsPair
  /\ RecursionDepth(0, Length(_xcoord) - 1) = CeilLog2(Length(_xcoord)) + 1

----------------------------------------------------------------------------
(* C13 *)

\* what invocation t returns when it runs alone on a new instance
AloneResult(t) == closestPoints(Constructed, inv[t].xs, inv[t].ys).result

\* the object o is a point of the cloud of invocation t
IsPointOf(o, t) ==
  /\ o \notin {null, EmptyObject}
  /\ o.ref \in 0..(Length(inv[t].xs) - 1)
  /\ o = Point(o.ref, inv[t].xs, inv[t].ys)

\* C13: the running best is instance state, so an invocation returns the
\* pair it returns alone as long as no step of another invocation writes
\* the instance fields between its reset and its result read -- and there
\* are interleavings (C13_Witness) in which it returns another pair.
C13_OnlyInterleavingChangesTheResult ==
  \A t \in Invocations :
    (inv[t].pc = "returned" /\ inv[t].alone) => inv[t].result = AloneResult(t)

\* invocation A has returned a pair that it does not return alone, made of
\* two points of the cloud of invocation B that are no points of its own
C13_Witness ==
  /\ inv["A"].pc = "returned"
  /\ Length(inv["A"].xs) >= 2
  /\ inv["A"].result # AloneResult("A")
  /\ Length(inv["A"].result) = 2
  /\ \A k \in 1..2 : /\ IsPointOf(inv["A"].result.elems[k], "B")
                      /\ ~IsPointOf(inv["A"].result.elems[k], "A")

----------------------------------------------------------------------------
(* C14 *)

\* the pairs the strip scans of the call on (xs, ys) examine, in the order
\* in which they examine them
Examined(xs, ys) ==
  LET p == Sort(Points(xs, ys), <<"x">>)
  IN  __closestPoint(p, Root(p, Reset(Constructed)), 0, Len(p) - 1).seen

\* the call went through the strip scans (n = 2 or n >= 4)
Scanned == CloudAtLeast(2) /\ Length(_xcoord) # 3

\* the positions in seen of the pairs at squared distance delta
Tied(seen, delta) ==
  {k \in 1..Len(seen) : SquaredDistance(seen[k][1], seen[k][2]) = delta}

\* C14: the returned pair is at the smallest distance the scan has found,
\* and among the examined pairs that tie at this distance it is the one
\* examined first: a pair examined later at the same distance never
\* replaces the recorded one.
C14_FirstTiedPairIsReturned ==
  Scanned =>
    LET seen  == Examined(_xcoord, _ycoord)
        tied  == Tied(seen, ResultDist2)
        first == CHOOSE k \in tied : \A l \in tied : k <= l
    IN  /\ ResultIsPair
        /\ \A k \in 1..Len(seen) : SquaredDistance(seen[k][1], seen[k][2]) >= ResultDist2
        /\ tied # {}
        /\ result.elems = seen[first]

\* a call on four or more points has returned, and its scan has examined
\* at least two pairs at the distance of the returned pair
C14_Witness ==
  /\ Scanned
  /\ CloudAtLeast(4)
  /\ ResultIsPair
  /\ Cardinality(Tied(Examined(_xcoord, _ycoord), ResultDist2)) >= 2

----------------------------------------------------------------------------
(* C15 *)

\* the predicate f has been called and has returned
Answered(f) == fn = f /\ out # null

Sign(v) == IF v > 0 THEN 1 ELSE IF v < 0 THEN -1 ELSE 0

\* on which side of the line from (ax, ay) to (bx, by) the point (cx, cy)
\* lies: 1 left, -1 right, 0 on the line
Side(ax, ay, bx, by, cx, cy) ==
  Sign((bx - ax) * (cy - ay) - (by - ay) * (cx - ax))

\* (cx, cy) lies in the bounding box of the segment (ax, ay)-(bx, by)
InBox(ax, ay, bx, by, cx, cy) ==
  /\ (ax <= cx /\ cx <= bx) \/ (bx <= cx /\ cx <= ax)
  /\ (ay <= cy /\ cy <= by) \/ (by <= cy /\ cy <= ay)

\* the closed segments p-p2 and q-q2 have a point in common
SegmentsMeet(px, py, p2x, p2y, qx, qy, q2x, q2y) ==
  LET o1 == Side(px, py, p2x, p2y, qx, qy)
      o2 == Side(px, py, p2x, p2y, q2x, q2y)
      o3 == Side(qx, qy, q2x, q2y, px, py)
      o4 == Side(qx, qy, q2x, q2y, p2x, p2y)
  IN  \/ o1 * o2 < 0 /\ o3 * o4 < 0
      \/ o1 = 0 /\ InBox(px, py, p2x, p2y, qx, qy)
      \/ o2 = 0 /\ InBox(px, py, p2x, p2y, q2x, q2y)
      \/ o3 = 0 /\ InBox(qx, qy, q2x, q2y, px, py)
      \/ o4 = 0 /\ InBox(qx, qy, q2x, q2y, p2x, p2y)

\* C15: segmentsIntersect returns true exactly when the closed segments
\* P-P2 and Q-Q2 have a point in common (crossing, touching, or collinear
\* overlap), and gives the same answer when the segments are exchanged.
C15_FullIntersectionTest ==
  Answered("segmentsIntersect") =>
    /\ out.value = SegmentsMeet(args[1], args[2], args[3], args[4],
                                args[5], args[6], args[7], args[8])
    /\ out.value = segmentsIntersect(Constructed, args[5], args[6], args[7], args[8],
                                     args[1], args[2], args[3], args[4]).value

----------------------------------------------------------------------------
(* C16 *)

\* the segment (x1,y1)-(x2,y2) has a point in common with an edge of the
\* rectangle (left, top)-(right, bottom)
MeetsBoundary(x1, y1, x2, y2, left, top, right, bottom) ==
  \E k \in 1..4 :
    LET e == Edges(left, top, right, bottom)[k]
    IN  SegmentsMeet(x1, y1, x2, y2, e[1], e[2], e[3], e[4])

\* both end points lie strictly beyond the same side of the box
BeyondSameSide(x1, y1, x2, y2, left, top, right, bottom) ==
  LET lo == IF top < bottom THEN top ELSE bottom
      hi == IF top < bottom THEN bottom ELSE top
  IN  \/ x1 < left /\ x2 < left
      \/ x1 > right /\ x2 > right
      \/ y1 < lo /\ y2 < lo
      \/ y1 > hi /\ y2 > hi

\* C16: for a rectangle with left <= right, y-down or y-up, intersectBox
\* returns true whenever the segment has a point in common with the
\* boundary of the rectangle (a single point of contact and a segment along
\* an edge included), and false whenever both end points lie strictly
\* beyond the same side.
C16_BoundaryContactIsReported ==
  (Answered("intersectBox") /\ args[5] <= args[7]) =>
    /\ MeetsBoundary(args[1], args[2], args[3], args[4],
                     args[5], args[6], args[7], args[8]) => out.value
    /\ BeyondSameSide(args[1], args[2], args[3], args[4],
                      args[5], args[6], args[7], args[8]) => ~out.value

----------------------------------------------------------------------------
(* C17 *)

\* the point in which the segment (x1,y1)-(x2,y2) crosses the line of the
\* segment e, the two not being parallel
CrossingPoint(x1, y1, x2, y2, e) ==
  LET den == (x2 - x1) * (e[4] - e[2]) - (y2 - y1) * (e[3] - e[1])
      num == (e[1] - x1) * (e[4] - e[2]) - (e[2] - y1) * (e[3] - e[1])
  IN  [x |-> Number(den * x1 + num * (x2 - x1), den),
       y |-> Number(den * y1 + num * (y2 - y1), den)]

Parallel(x1, y1, x2, y2, e) ==
  (x2 - x1) * (e[4] - e[2]) - (y2 - y1) * (e[3] - e[1]) = 0

\* the points the segment has in common with the edges it is not parallel to
BoundaryPoints(x1, y1, x2, y2, left, top, right, bottom) ==
  LET edges == Edges(left, top, right, bottom)
  IN  {CrossingPoint(x1, y1, x2, y2, edges[k]) :
         k \in {j \in 1..4 : /\ ~Parallel(x1, y1, x2, y2, edges[j])
                              /\ SegmentsMeet(x1, y1, x2, y2, edges[j][1], edges[j][2],
                                              edges[j][3], edges[j][4])}}

\* the segment has no point in common with an edge it is parallel to
NoEdgeOverlap(x1, y1, x2, y2, left, top, right, bottom) ==
  LET edges == Edges(left, top, right, bottom)
  IN  \A k \in 1..4 :
        Parallel(x1, y1, x2, y2, edges[k]) =>
          ~SegmentsMeet(x1, y1, x2, y2, edges[k][1], edges[k][2], edges[k][3], edges[k][4])

\* (x, y) is strictly inside the box
StrictlyInside(x, y, left, top, right, bottom) ==
  /\ left < x /\ x < right
  /\ (top < y /\ y < bottom) \/ (bottom < y /\ y < top)

\* C17: when the segment meets the boundary of the rectangle in exactly one
\* point, one of its end points being inside the box, lineRectIntersection
\* returns that point in one coordinate set and null in the other; when it
\* meets the boundary in two points it returns both, with x2 >= x1.
C17_OnePointAndNullOrTwoOrderedPoints ==
  (/\ Answered("lineRectIntersection")
   /\ NoEdgeOverlap(args[1], args[2], args[3], args[4], args[5], args[6], args[7], args[8]))
  =>
    LET bp == BoundaryPoints(args[1], args[2], args[3], args[4],
                             args[5], args[6], args[7], args[8])
        o  == out.value
    IN  /\ (/\ Cardinality(bp) = 1
            /\ \/ StrictlyInside(args[1], args[2], args[5], args[6], args[7], args[8])
               \/ StrictlyInside(args[3], args[4], args[5], args[6], args[7], args[8]))
           => \E a \in bp :
                \/ o = [x1 |-> a.x, y1 |-> a.y, x2 |-> null, y2 |-> null]
                \/ o = [x1 |-> null, y1 |-> null, x2 |-> a.x, y2 |-> a.y]
        /\ Cardinality(bp) = 2
           => \E a \in bp : \E b \in bp :
                /\ a # b
                /\ o = [x1 |-> a.x, y1 |-> a.y, x2 |-> b.x, y2 |-> b.y]
                /\ ~Greater(a.x, b.x)

\* ---------------------------------------------------------------------------
\* C18
\* ---------------------------------------------------------------------------

\* the two boxes handed to boxesIntersect
Box1 == Bound(args, 1)
Box2 == Bound(args, 5)

\* a box whose left side is not to the right of its right side
WellFormed(b) == b.left <= b.right

\* the point (x, y) belongs to the closed box b, whichever of top and bottom
\* is the larger
InClosedBox(x, y, b) ==
  /\ b.left <= x /\ x <= b.right
  /\ \/ b.top <= y /\ y <= b.bottom
     \/ b.bottom <= y /\ y <= b.top

\* two boxes with integer sides share a point exactly when they share a point
\* with integer coordinates
SharePoint(b1, b2) ==
  \E x \in Coord : \E y \in Coord : InClosedBox(x, y, b1) /\ InClosedBox(x, y, b2)

\* the points two boxes have in common
CommonPoints(b1, b2) ==
  {q \in Coord \X Coord : InClosedBox(q[1], q[2], b1) /\ InClosedBox(q[1], q[2], b2)}

\* C18: for two boxes with left <= right, in y-up or y-down orientation,
\* boxesIntersect returns a boolean, which is true exactly when the two
\* closed boxes have a point in common (contact in a single point included),
\* and the call with the two boxes exchanged returns the same.
C18_TrueExactlyWhenBoxesShareAPoint ==
  (Answered("boxesIntersect") /\ WellFormed(Box1) /\ WellFormed(Box2)) =>
    /\ DOMAIN out.value = {"boolean"}
    /\ out.value.boolean = SharePoint(Box1, Box2)
    /\ out.value = boxesIntersect(Box2, Box1)

\* C18 witness: a y-down box and a y-up box that touch in exactly one point
\* are reported as intersecting.
C18_Witness ==
  /\ Answered("boxesIntersect") /\ WellFormed(Box1) /\ WellFormed(Box2)
  /\ Box1.bottom > Box1.top /\ Box2.top > Box2.bottom
  /\ Box1.left < Box1.right /\ Box2.left < Box2.right
  /\ Cardinality(CommonPoints(Box1, Box2)) = 1
  /\ out.value = [boolean |-> TRUE]

\* ---------------------------------------------------------------------------
\* C19
\* ---------------------------------------------------------------------------

\* the smaller and the larger of two numbers
Smaller(a, b) == IF a < b THEN a ELSE b
Larger(a, b) == IF a < b THEN b ELSE a

\* C19: insideBox(x, y, left, top, right, bottom) is true exactly when
\* left < x < right and min(top, bottom) < y < max(top, bottom); a point on
\* the boundary is outside, in both orientations.
C19_StrictlyInsideOnly ==
  Answered("insideBox") =>
    out.value = (/\ args[3] < args[1] /\ args[1] < args[5]
                 /\ Smaller(args[4], args[6]) < args[2]
                 /\ args[2] < Larger(args[4], args[6]))

\* C19 witness: a point on the left side of a y-up box, between its bottom
\* and its top, is reported as outside.
C19_Witness ==
  /\ Answered("insideBox")
  /\ args[4] > args[6] /\ args[3] < args[5]
  /\ args[1] = args[3] /\ args[6] < args[2] /\ args[2] < args[4]
  /\ out.value = FALSE

\* ---------------------------------------------------------------------------
\* C20
\* ---------------------------------------------------------------------------

\* the cross product of (x2-x1, y2-y1) and (x-x1, y-y1)
CrossProduct(x1, y1, x2, y2, x, y) == (x2 - x1) * (y - y1) - (y2 - y1) * (x - x1)

\* LEFT and RIGHT exchanged, ON kept
Opposite(dir) ==
  IF dir = DirEnum.LEFT THEN DirEnum.RIGHT
  ELSE IF dir = DirEnum.RIGHT THEN DirEnum.LEFT
  ELSE dir

\* C20: pointOrientation returns ON when the cross product is zero, LEFT when
\* it is positive and RIGHT otherwise, and the call with the two points of the
\* line exchanged returns RIGHT for LEFT, LEFT for RIGHT and ON for ON.
C20_OrientationFollowsTheCrossProduct ==
  Answered("pointOrientation") =>
    LET c == CrossProduct(args[1], args[2], args[3], args[4], args[5], args[6])
    IN  /\ out.value = (IF c = 0 THEN DirEnum.ON
                        ELSE IF c > 0 THEN DirEnum.LEFT ELSE DirEnum.RIGHT)
        /\ pointOrientation(args[3], args[4], args[1], args[2], args[5], args[6])
             = Opposite(out.value)

\* C20 witness: a point reported LEFT of a line that is neither horizontal
\* nor vertical, and RIGHT of the reversed line.
C20_Witness ==
  /\ Answered("pointOrientation")
  /\ args[1] # args[3] /\ args[2] # args[4]
  /\ out.value = DirEnum.LEFT
  /\ pointOrientation(args[3], args[4], args[1], args[2], args[5], args[6]) = DirEnum.RIGHT

\* ---------------------------------------------------------------------------
\* C21
\* ---------------------------------------------------------------------------

\* twice the signed area of the triangle P0 P1 P2 (shoelace formula):
\* positive for a counter-clockwise sequence in y-up coordinates, negative
\* for a clockwise one, zero for collinear points
SignedArea2(x0, y0, x1, y1, x2, y2) ==
  x0 * (y1 - y2) + x1 * (y2 - y0) + x2 * (y0 - y1)

\* C21: for three points that are not collinear isClockwise(P0, P1, P2) is
\* true when the sequence is clockwise and false when it is
\* counter-clockwise; it is false exactly when P2 is to the left of the
\* directed line P0 -> P1 (cross product > 0), and the call with P1 and P2
\* exchanged returns the opposite.
C21_ClockwiseExactlyWhenNotLeft ==
  (/\ Answered("isClockwise")
   /\ SignedArea2(args[1], args[2], args[3], args[4], args[5], args[6]) # 0) =>
    /\ out.value = (SignedArea2(args[1], args[2], args[3], args[4], args[5], args[6]) < 0)
    /\ out.value = ~(CrossProduct(args[1], args[2], args[3], args[4], args[5], args[6]) > 0)
    /\ isClockwise(args[1], args[2], args[5], args[6], args[3], args[4]) = ~out.value

\* C21 witness: a counter-clockwise sequence of three points is reported as
\* not clockwise, and as clockwise with P1 and P2 exchanged.
C21_Witness ==
  /\ Answered("isClockwise")
  /\ SignedArea2(args[1], args[2], args[3], args[4], args[5], args[6]) > 0
  /\ out.value = FALSE
  /\ isClockwise(args[1], args[2], args[5], args[6], args[3], args[4])

\* ---------------------------------------------------------------------------
\* C22
\* ---------------------------------------------------------------------------

\* the line handed to reflect has two different end points
DistinctLine == args.line[1] # args.line[3] \/ args.line[2] # args.line[4]

\* the point q (two fractions) is the mirror image of the point p (two
\* integers) about the line through (x0, y0) and (x1, y1): the segment p q
\* is perpendicular to the line and its midpoint is on the line
IsMirrorImage(p, q, x0, y0, x1, y1) ==
  LET dx == x1 - x0
      dy == y1 - y0
      \* q - p and p + q - 2*P0, both multiplied by q.x.d * q.y.d
      ux == (q.x.n - p.x * q.x.d) * q.y.d
      uy == (q.y.n - p.y * q.y.d) * q.x.d
      mx == (q.x.n + p.x * q.x.d - 2 * x0 * q.x.d) * q.y.d
      my == (q.y.n + p.y * q.y.d - 2 * y0 * q.y.d) * q.x.d
  IN  /\ ux * dx + uy * dy = 0
      /\ mx * dy - my * dx = 0

\* the line handed to reflect is the line y = x
IsDiagonal ==
  /\ args.line[1] = args.line[2] /\ args.line[3] = args.line[4]
  /\ args.line[1] # args.line[3]

\* C22: for a line with two different end points and a non-empty input
\* reflect returns a new array of the length of the input whose i-th element
\* is the mirror image of points[i] about the line (for the line y = x: the
\* two coordinates exchanged); for a degenerate line or an empty input it
\* returns the array it was given, with the points it was given.
C22_MirrorImagesInANewArray ==
  Answered("reflect") =>
    LET points == args.points
        len    == Len(points.elems)
    IN  IF DistinctLine /\ len > 0
          THEN /\ out.value.id # points.id
               /\ Len(out.value.elems) = len
               /\ \A i \in 1..len :
                    /\ IsMirrorImage(points.elems[i], out.value.elems[i],
                                     args.line[1], args.line[2], args.line[3], args.line[4])
                    /\ IsDiagonal =>
                         /\ out.value.elems[i].x = Number(points.elems[i].y, 1)
                         /\ out.value.elems[i].y = Number(points.elems[i].x, 1)
          ELSE out.value = points

\* C22 witness: two points off a line that is neither horizontal, vertical
\* nor diagonal have been reflected into two points other than themselves.
C22_Witness ==
  /\ Answered("reflect") /\ DistinctLine
  /\ Len(args.points.elems) = 2
  /\ args.line[1] # args.line[3] /\ args.line[2] # args.line[4] /\ ~IsDiagonal
  /\ Abs(args.line[3] - args.line[1]) # Abs(args.line[4] - args.line[2])
  /\ out.value.id = "reflect"
  /\ \A i \in 1..2 : out.value.elems[i].x # Number(args.points.elems[i].x, 1)

\* ---------------------------------------------------------------------------
\* C23
\* ---------------------------------------------------------------------------

\* the state the root call of the invocation on (xs, ys) leaves behind,
\* with its history fields
ScanOf(xs, ys) ==
  LET p == Sort(Points(xs, ys), <<"x">>)
  IN  __closestPoint(p, Root(p, Reset(Constructed)), 0, Len(p) - 1)

\* the smallest squared distance among the first k pairs of seen (k >= 1)
SmallestOfFirst(seen, k) ==
  LET DP == {SquaredDistance(seen[j][1], seen[j][2]) : j \in 1..k}
  IN  CHOOSE m \in DP : \A e \in DP : m <= e

\* the invocation went through the three-point branch
ThreePointPath == Cloud(3)

\* the two pairs the three-point branch examines
ThreePointPairs == <<<<At(SortedOnX, 0), At(SortedOnX, 1)>>, <<At(SortedOnX, 1), At(SortedOnX, 2)>>>>

\* C23: at every point of an invocation _bestDist is the smallest distance
\* of the candidate pairs examined so far, and the recorded pair is at that
\* distance: after each pair of a strip scan, and at the return of the
\* three-point branch, which has examined its two adjacent pairs.
C23_BestDistIsMinimumOfExamined ==
  CloudAtLeast(2) =>
    IF ThreePointPath
      THEN _bestDist = SmallestOfFirst(ThreePointPairs, 2)
      ELSE LET s == ScanOf(_xcoord, _ycoord)
           IN  /\ \A k \in 1..Len(s.seen) :
                    /\ s.best[k]._bestDist = SmallestOfFirst(s.seen, k)
                    /\ s.best[k]._best1 \notin {null, EmptyObject}
                    /\ s.best[k]._best2 \notin {null, EmptyObject}
                    /\ SquaredDistance(s.best[k]._best1, s.best[k]._best2)
                         = s.best[k]._bestDist
               /\ Len(s.seen) > 0
               /\ _bestDist = s.best[Len(s.seen)]._bestDist

\* ---------------------------------------------------------------------------
\* C24
\* ---------------------------------------------------------------------------

\* the running best before the k-th examined pair of the scan s: the reset
\* state for the first pair, what the pair before has left otherwise
BestBefore(s, k) == IF k = 1 THEN Reset(Constructed) ELSE s.best[k - 1]

\* the positions of the examined pairs of the scan s that wrote the running best
Writes(s) == {k \in 1..Len(s.seen) : s.best[k] # BestBefore(s, k)}

\* C24: within one invocation, after the reset to the sentinel, every write
\* of _bestDist stores a strictly smaller value than the one it replaces, at
\* every recursion level: an examined pair either leaves the running best as
\* it is or lowers _bestDist; the one write of the three-point branch lowers
\* it from the sentinel.
C24_BestDistOnlyDecreases ==
  CloudAtLeast(2) =>
    IF ThreePointPath
      THEN _bestDist < MAX_VALUE
      ELSE LET s == ScanOf(_xcoord, _ycoord)
           IN  /\ \A k \in 1..Len(s.seen) :
                    \/ s.best[k] = BestBefore(s, k)
                    \/ s.best[k]._bestDist < BestBefore(s, k)._bestDist
               /\ _bestDist = s.best[Len(s.seen)]._bestDist
               /\ _bestDist < MAX_VALUE

\* C24 witness: a call on four or more points whose scans wrote the running
\* best at least twice and examined, after the first write, a pair farther
\* apart than the running best.
C24_Witness ==
  /\ CloudAtLeast(4)
  /\ ResultIsPair
  /\ LET s == ScanOf(_xcoord, _ycoord)
     IN  /\ Cardinality(Writes(s)) >= 2
         /\ \E k \in 2..Len(s.seen) :
              SquaredDistance(s.seen[k][1], s.seen[k][2]) > s.best[k - 1]._bestDist

\* ---------------------------------------------------------------------------
\* C25
\* ---------------------------------------------------------------------------

\* the points pointsByX[from..to] of the call recorded in the frame f
RangePoints(f) == {At(f.pointsByX, i) : i \in f.from..f.to}

\* the smallest squared distance between two different points of the set P
\* of point objects (P has at least two elements)
SmallestIn(P) ==
  LET DP == {SquaredDistance(c[1], c[2]) : c \in {b \in P \X P : b[1].ref < b[2].ref}}
  IN  CHOOSE m \in DP : \A e \in DP : m <= e

\* the calls of the recursion of the invocation, in the order of their returns
Frames == ScanOf(_xcoord, _ycoord).frames

\* C25: every call __closestPoint(pointsByX, pointsByY, from, to) with
\* to > from returns the smallest distance between two of the points
\* pointsByX[from..to]; a call with to <= from returns the sentinel and
\* leaves the running best and the array pointsByY as they were.
C25_ReturnsMinimumOfItsRange ==
  (CloudAtLeast(2) /\ ~ThreePointPath) =>
    LET frames == Frames
    IN  \A k \in 1..Len(frames) :
          LET f == frames[k]
          IN  IF f.to > f.from
                THEN f.d = SmallestIn(RangePoints(f))
                ELSE f.d = MAX_VALUE /\ f.exit = f.entry

\* ---------------------------------------------------------------------------
\* C26
\* ---------------------------------------------------------------------------

\* the points of the range of the call recorded in f whose x-coordinate
\* differs from median.x by less than the d of the strip, in the order of
\* the y-sorted array
BandOfRange(f) ==
  LET Belongs(q) == /\ q \in RangePoints(f)
                    /\ (q.x - f.median.x) * (q.x - f.median.x) < f.dStrip
  IN  SelectSeq(f.sorted, Belongs)

\* C26: the strip of a call on [from, to] holds exactly the points of
\* pointsByX[from..to] whose x-coordinate differs from median.x by less than
\* d, in ascending y order: no point from outside the range, and every point
\* of the range within the band.
C26_StripIsTheBandOfTheRange ==
  (CloudAtLeast(2) /\ ~ThreePointPath) =>
    LET frames == Frames
    IN  \A k \in 1..Len(frames) :
          ~frames[k].outlier => frames[k].tmp = BandOfRange(frames[k])

\* ---------------------------------------------------------------------------
\* C27
\* ---------------------------------------------------------------------------

\* the point objects made from the n slots of the input arrays
InputSlots == {Point(i, _xcoord, _ycoord) : i \in 0..(Length(_xcoord) - 1)}

\* the array a holds every slot of the input exactly once
IsPermutationOfSlots(a) ==
  /\ Len(a) = Length(_xcoord)
  /\ {a[i] : i \in 1..Len(a)} = InputSlots

\* the array a is in ascending order of the property prop
Ascending(a, prop) == \A i \in 1..Len(a) : \A j \in 1..Len(a) : i < j => a[i][prop] <= a[j][prop]

\* C27: in every call of the recursion pointsByX is the one array built from
\* the input, holding every slot once in ascending x order, and pointsByY
\* holds every slot once at entry and at exit, in ascending y order after the
\* re-sort of a call that got past the outlier test.  (The arrays xs and ys
\* of the caller are only read: every action leaves them as they are.)
C27_TwoOrderingsOfOnePointSet ==
  (CloudAtLeast(2) /\ ~ThreePointPath) =>
    LET frames == Frames
    IN  /\ Len(frames) > 0
        /\ \A k \in 1..Len(frames) :
             LET f == frames[k]
             IN  /\ f.pointsByX = frames[1].pointsByX
                 /\ IsPermutationOfSlots(f.pointsByX)
                 /\ Ascending(f.pointsByX, "x")
                 /\ IsPermutationOfSlots(f.entry.pointsByY)
                 /\ IsPermutationOfSlots(f.exit.pointsByY)
                 /\ ~f.outlier => /\ f.sorted = f.exit.pointsByY
                                  /\ Ascending(f.sorted, "y")

\* C27 witness: a call on four or more points in which a re-sort has changed
\* the order of pointsByY, which then differs from the order of pointsByX.
C27_Witness ==
  /\ CloudAtLeast(4)
  /\ ResultIsPair
  /\ LET frames == Frames
     IN  \E k \in 1..Len(frames) :
           /\ ~frames[k].outlier
           /\ frames[k].exit.pointsByY # frames[k].entry.pointsByY
           /\ frames[k].exit.pointsByY # frames[k].pointsByX

\* ---------------------------------------------------------------------------
\* C28
\* ---------------------------------------------------------------------------

\* C28: once a call has passed its reset the running best is consistent:
\* either _bestDist is the sentinel and _best1, _best2 are null, or _best1
\* and _best2 are two points of the input at distance _bestDist; and when
\* the call returns a pair, _bestDist is the distance of that pair, on the
\* three-point branch as well.
C28_RunningBestIsConsistent ==
  CloudAtLeast(2) =>
    /\ \/ _bestDist = MAX_VALUE /\ _best1 = null /\ _best2 = null
       \/ /\ IsInputSlot(_best1) /\ IsInputSlot(_best2)
          /\ SquaredDistance(_best1, _best2) = _bestDist
    /\ ResultIsPair => _bestDist = ResultDist2

\* ---------------------------------------------------------------------------
\* C29
\* ---------------------------------------------------------------------------

\* the array a with the elements at the (1-based) positions i and j exchanged
Exchanged(a, i, j) ==
  Array([k \in 1..Length(a) |-> IF k = i THEN a.elems[j]
                                ELSE IF k = j THEN a.elems[i] ELSE a.elems[k]])

\* the squared distance between the two points closestPoints returns for
\* (xs, ys) on a new instance
ReportedDist2(xs, ys) ==
  LET r == closestPoints(Constructed, xs, ys).result
  IN  SquaredDistance(r.elems[1], r.elems[2])

\* C29: the reported distance does not depend on the order in which the
\* points are listed: the call on the same points with two of them exchanged
\* (in xs and in ys alike) returns two points at the same distance.
C29_OrderOfThePointsIsIrrelevant ==
  CloudAtLeast(2) =>
    \A i \in 1..Length(_xcoord) : \A j \in 1..Length(_xcoord) :
      i < j => ReportedDist2(Exchanged(_xcoord, i, j), Exchanged(_ycoord, i, j)) = ResultDist2

====
